---- MODULE Spec2Model ----
(***************************************************************************)
(* State-machine model of the CF Vanguard string-table patching scripts:   *)
(* the relocation injectors (scripts/inject_from_file.py and the           *)
(* inject_character_selection_* scripts), the in-place patcher             *)
(* (scripts/code_bin_trad_no_extend.py, safe_replacement_test.py), the     *)
(* pointer-table export / extractor and the exheader patchers.             *)
(*                                                                         *)
(* Images and headers are sequences of bytes (0..255); a Python offset o   *)
(* is the TLA+ index o + 1.  Texts are sequences of UTF-16 code units.     *)
(***************************************************************************)
EXTENDS Integers, Sequences, FiniteSets, TLC

VARIABLES
    script,     \* which script is running
    pc,         \* "run" while the script's loop is active, "done" after it wrote its output, "crashed" on an uncaught exception
    data,       \* the bytearray `data` (the image being patched)
    orig_len,   \* `orig_len = len(data)` taken right after loading
    cursor,     \* the relocation cursor `cursor`
    idx,        \* number of rows already processed by the loop
    log,        \* what the loop printed / decided for each processed row
    output,     \* the output file: <<>> while unwritten, <<contents>> once written
    pointers,   \* the (source, size) list read by read_pointers
    records,    \* the pointer records (location, value) given to the export / the extractor
    region,     \* the configured target region [start, end) of the export / the extractor
    ex_file,    \* the exheader file: <<>> when missing, else <<bytes>>
    size_padded,    \* os.path.getsize of the padded image, -1 when the file is missing
    size_patched,   \* os.path.getsize of the patched image, -1 when the file is missing
    input_text, \* the str handed to encode_utf16le, as its UTF-16 code units
    decompressed    \* what decompress_rtz returned / wrote: <<>> while unset, else <<bytes>>

tableVars == <<records, region>>
headerVars == <<ex_file, size_padded, size_patched>>
codecVars == <<input_text, decompressed>>

vars == <<script, pc, data, orig_len, cursor, idx, log, output, pointers,
          records, region, ex_file, size_padded, size_patched, input_text, decompressed>>

\* The variables a script does not use keep these values
NoTable == records = << >> /\ region = [start |-> 0, end |-> 0]
NoHeader == ex_file = << >> /\ size_padded = -1 /\ size_patched = -1
NoCodec == input_text = << >> /\ decompressed = << >>

----------------------------------------------------------------------------
(* Bounds of the model *)

MaxRows == 2          \* rows in the translation CSV
MaxPtrs == 2          \* pointer locations per row
MaxImageLen == 8      \* longest input image of a relocation run (the shortest holds two pointers)
MaxPtrSlot == 4       \* rows offer the pointer file offsets -2, 0, 2, .., 2 * MaxPtrSlot
MaxPatchImageLen == 5 \* longest input image of an in-place run
MaxPointers == 2      \* pointers found by a scan
MaxAnswerUnits == 3   \* longest text answered by the translation service
MaxReplacements == 2  \* entries of TEST_REPLACEMENTS
MaxExtractUnits == 4  \* longest input image of the extractor, in 16-bit units
MaxRecords == 3       \* pointer records given to the export / the extractor
MaxPreciseLen == 4    \* longest decompressed file given to precision_rtz_injector
MaxTranslations == 2  \* translations applied to one container
MaxSmallRaw == 3      \* raw files have 0..MaxSmallRaw bytes, or that many above MIN_RTZ_SIZE
MaxTextLen == 3       \* longest text given to the codec, in code units
MaxPages == 2         \* image files are up to MaxPages pages long (plus or minus one byte)
MaxHeaderExtra == 1   \* exheader files are up to 0x38 + MaxHeaderExtra bytes long

----------------------------------------------------------------------------
(* Python primitives *)

Min(a, b) == IF a < b THEN a ELSE b
Max(a, b) == IF a > b THEN a ELSE b

Last(s) == s[Len(s)]

\* d[lo:hi] for 0 <= lo, 0 <= hi (Python clamps both ends to len(d))
Slice(d, lo, hi) ==
    LET l == Min(lo, Len(d))
        h == Min(hi, Len(d))
    IN  IF h <= l THEN << >> ELSE SubSeq(d, l + 1, h)

\* d[lo:hi] = bs on a bytearray, 0 <= lo, 0 <= hi: the (clamped) slice is
\* removed and bs is spliced in; an empty slice (hi <= lo) inserts at lo.
SliceAssign(d, lo, hi, bs) ==
    LET l == Min(lo, Len(d))
        h == Max(l, Min(hi, Len(d)))
    IN  SubSeq(d, 1, l) \o bs \o SubSeq(d, h + 1, Len(d))

\* v.to_bytes(4, 'little') / struct.pack('<I', v) for 0 <= v < 2^32
LE32(v) ==
    << v % 256, (v \div 256) % 256, (v \div 65536) % 256, (v \div 16777216) % 256 >>

\* text.encode('utf-16le') for a text of BMP code units: low byte, high byte
RECURSIVE EncodeUtf16le(_)
EncodeUtf16le(text) ==
    IF text = << >> THEN << >>
    ELSE << Head(text) % 256, Head(text) \div 256 >> \o EncodeUtf16le(Tail(text))

----------------------------------------------------------------------------
(* Relocation injectors *)

BASE_ADDR == 1048576      \* 0x0100000
MAX_CHAINES == 13988

DAGGER == 8224            \* U+2020, the CSV line-break escape
NEWLINE == 10             \* U+000A

HexDigits == << "0", "1", "2", "3", "4", "5", "6", "7",
                "8", "9", "A", "B", "C", "D", "E", "F" >>

HexVal(c) == (CHOOSE i \in 1..16 : HexDigits[i] = c) - 1

\* int(p, 16) for a token of hex digits
RECURSIVE IntHex(_)
IntHex(p) ==
    IF p = << >> THEN 0
    ELSE 16 * IntHex(SubSeq(p, 1, Len(p) - 1)) + HexVal(Last(p))

Aucun == << "(", "a", "u", "c", "u", "n", ")" >>

\* parse_separators: the field is given as its whitespace-separated tokens
parse_separators(sep_field) ==
    IF sep_field = << Aucun >> THEN << >>
    ELSE [i \in 1..Len(sep_field) |-> IntHex(sep_field[i])]

\* row['extract'].replace(DAGGER, NEWLINE)
UnescapeNewlines(extract) ==
    [i \in 1..Len(extract) |-> IF extract[i] = DAGGER THEN NEWLINE ELSE extract[i]]

\* block = utf16_bytes + sep_bytes
Block(row) ==
    EncodeUtf16le(UnescapeNewlines(row.extract)) \o parse_separators(row.separators)

\* The bounds test of the multi-pointer injectors: `off < 0 or off + 4 > len(data)`
InvalidOffset(off, d) == off < 0 \/ off + 4 > Len(d)

\* The bounds test of inject_character_selection_complete: `0 <= off < len(data) - 4`
ValidOffsetComplete(off, d) == 0 <= off /\ off < Len(d) - 4

\* Mutant of PatchPointer: a five-byte store, the address and a zero byte
PatchPointerFiveBytes(d, off, new_addr) ==
    SliceAssign(d, off, off + 5, LE32(new_addr) \o << 0 >>)

\* Mutant of PatchPointer: `data[off:off] = ...`, which inserts the four bytes
PatchPointerInsert(d, off, new_addr) == SliceAssign(d, off, off, LE32(new_addr))

\* Mutant of PatchPointer: `+=` for `=`, each byte is added to the byte it replaces
PatchPointerAccumulate(d, off, new_addr) ==
    SliceAssign(d, off, off + 4,
                [k \in 1..4 |-> (d[off + k] + LE32(new_addr)[k]) % 256])

\* data[off:off + 4] = new_addr.to_bytes(4, 'little')
PatchPointer(d, off, new_addr) == SliceAssign(d, off, off + 4, LE32(new_addr))

\* Mutant of RewritePointers: only the first pointer of the field is rewritten
RewriteFirstPointerOnly(d, ptrs, new_addr) ==
    IF ptrs = << >> \/ InvalidOffset(Head(ptrs) - BASE_ADDR, d) THEN d
    ELSE SliceAssign(d, Head(ptrs) - BASE_ADDR, Head(ptrs) - BASE_ADDR + 4, LE32(new_addr))

\* The inner `for off_s in row['pointer_offsets'].split(',')` loop
RECURSIVE RewritePointers(_, _, _)
RewritePointers(d, ptrs, new_addr) ==
    IF ptrs = << >> THEN d
    ELSE LET off == Head(ptrs) - BASE_ADDR
         IN  RewritePointers(
                 IF InvalidOffset(off, d) THEN d ELSE PatchPointer(d, off, new_addr),
                 Tail(ptrs), new_addr)

\* The pointer locations (file offsets) the inner loop patched, in order
RECURSIVE PatchedOffsets(_, _)
PatchedOffsets(d, ptrs) ==
    IF ptrs = << >> THEN << >>
    ELSE LET off == Head(ptrs) - BASE_ADDR
         IN  (IF InvalidOffset(off, d) THEN << >> ELSE << off >>)
             \o PatchedOffsets(d, Tail(ptrs))

\* inject_character_selection_fixed and inject_character_selection_small run
\* the loop of inject_from_file (without its MAX_CHAINES cap); the model runs
\* it under the name of inject_from_file.
MultiScripts == {"inject_from_file"}
RelocScripts == MultiScripts \cup {"inject_character_selection_complete"}

\* Inputs: the CSV rows a run may read
PtrAddrs == {BASE_ADDR + 2 * k : k \in -1..MaxPtrSlot}
PtrLists == UNION {[1..n -> PtrAddrs] : n \in 1..MaxPtrs}
Texts == {<< >>, << 65 >>, << DAGGER >>}
SepFields == {<< Aucun >>, << <<"0", "0">>, <<"0", "0">> >>}
Rows == [pointer_offsets : PtrLists, separators : SepFields, extract : Texts]

\* Input images: byte i of the file is 0xA0 + i
Images == {[i \in 1..n |-> 159 + i] : n \in 8..MaxImageLen}

InitReloc ==
    /\ script \in RelocScripts
    /\ pc = "run"
    /\ data \in Images
    /\ orig_len = Len(data)
    /\ cursor = orig_len
    /\ idx = 0
    /\ log = << >>
    /\ output = << >>
    /\ pointers = << >>
    /\ NoTable /\ NoHeader /\ NoCodec

\* One iteration of the loop of inject_from_file / _fixed / _small
ProcessRow ==
    /\ pc = "run"
    /\ script \in MultiScripts
    /\ idx < MaxRows
    /\ script = "inject_from_file" => idx < MAX_CHAINES
    /\ \E row \in Rows :
         LET block == Block(row)
             new_file_off == cursor
             new_addr == BASE_ADDR + new_file_off
             patched == RewritePointers(data, row.pointer_offsets, new_addr)
         IN  /\ data' = patched \o block
             /\ cursor' = cursor + Len(block)
             /\ log' = Append(log, [row |-> row,
                                    new_addr |-> new_addr,
                                    block |-> block,
                                    patched |-> PatchedOffsets(data, row.pointer_offsets),
                                    appended |-> TRUE])
    /\ idx' = idx + 1
    /\ UNCHANGED <<script, pc, orig_len, output, pointers, tableVars, headerVars, codecVars>>

\* One iteration of the loop of inject_character_selection_complete, whose
\* pointer_offsets field is parsed as a single number
ProcessRowComplete ==
    /\ pc = "run"
    /\ script = "inject_character_selection_complete"
    /\ idx < MaxRows
    /\ \E row \in Rows :
         /\ Len(row.pointer_offsets) = 1
         /\ LET block == Block(row)
                new_file_off == cursor
                new_addr == BASE_ADDR + new_file_off
                off == row.pointer_offsets[1] - BASE_ADDR
                ok == ValidOffsetComplete(off, data)
            IN  /\ data' = IF ok THEN PatchPointer(data, off, new_addr) \o block ELSE data
                /\ cursor' = IF ok THEN cursor + Len(block) ELSE cursor
                /\ log' = Append(log, [row |-> row,
                                       new_addr |-> new_addr,
                                       block |-> block,
                                       patched |-> IF ok THEN << off >> ELSE << >>,
                                       appended |-> ok])
    /\ idx' = idx + 1
    /\ UNCHANGED <<script, pc, orig_len, output, pointers, tableVars, headerVars, codecVars>>

\* int(trans['pointer_offsets'], 16) on a comma-joined field raises ValueError
CrashComplete ==
    /\ pc = "run"
    /\ script = "inject_character_selection_complete"
    /\ idx < MaxRows
    /\ \E row \in Rows : Len(row.pointer_offsets) > 1
    /\ pc' = "crashed"
    /\ UNCHANGED <<script, data, orig_len, cursor, idx, log, output, pointers, tableVars, headerVars, codecVars>>

\* OUTPUT_BIN.write_bytes(data) after the last row
WriteOutput ==
    /\ pc = "run"
    /\ output' = << data >>
    /\ pc' = "done"
    /\ UNCHANGED <<script, data, orig_len, cursor, idx, log, pointers, tableVars, headerVars, codecVars>>

NextReloc == ProcessRow \/ ProcessRowComplete \/ CrashComplete \/ WriteOutput

SpecReloc == InitReloc /\ [][NextReloc]_vars

----------------------------------------------------------------------------
(* Pointer table export (scripts/IDA_export_pointers.py) *)

\* sorted(S) for a finite set of integers
RECURSIVE SortedSeq(_)
SortedSeq(S) ==
    IF S = {} THEN << >>
    ELSE LET m == CHOOSE x \in S : \A y \in S : x <= y
         IN  << m >> \o SortedSeq(S \ {m})

RECURSIVE Concat(_)
Concat(ss) == IF ss = << >> THEN << >> ELSE Head(ss) \o Concat(Tail(ss))

\* Step 1: the scanned dwords [ea, val] whose value lies in [START, END)
ScanPointers(dwords, START, END) ==
    SelectSeq(dwords, LAMBDA r : START <= r.val /\ r.val < END)

\* unique_targets = sorted({tgt for _, tgt in pointers_sorted})
UniqueTargets(ptrs) == SortedSeq({ptrs[i].val : i \in 1..Len(ptrs)})

\* pointers_sorted = sorted(pointers, key=lambda x: x[1])   (a stable sort)
PointersSorted(ptrs) ==
    LET ut == UniqueTargets(ptrs)
    IN  Concat([k \in 1..Len(ut) |-> SelectSeq(ptrs, LAMBDA r : r.val = ut[k])])

\* Step 3: table = [(ptr_ea, tgt, size)], size = next unique target (or END) - tgt
Table(dwords, START, END) ==
    LET ptrs == ScanPointers(dwords, START, END)
        ps == PointersSorted(ptrs)
        ut == UniqueTargets(ptrs)
        target_index(tgt) == CHOOSE i \in 1..Len(ut) : ut[i] = tgt
    IN  [n \in 1..Len(ps) |->
           LET i == target_index(ps[n].val)
               next_tgt == IF i + 1 <= Len(ut) THEN ut[i + 1] ELSE END
           IN  [offset |-> ps[n].ea, cible |-> ps[n].val, taille |-> next_tgt - ps[n].val]]

----------------------------------------------------------------------------
(* In-place patcher (scripts/code_bin_trad_no_extend.py) *)

\* read_pointers: (source, size) = (int(cible, 16) - 0x00100000, int(taille))
read_pointers(csv) ==
    [n \in 1..Len(csv) |-> [source |-> csv[n].cible - BASE_ADDR, size |-> csv[n].taille]]

IsSepPair(a, b) == (a = 0 /\ b = 0) \/ (a = 255 /\ b = 255)

\* Mutant of SeparatorMatchLen: a non-greedy pattern, which matches one pair
SeparatorMatchOnePair(bs) == IF Len(bs) >= 2 /\ IsSepPair(bs[1], bs[2]) THEN 2 ELSE 0

\* Length of the match of SEPARATOR_PATTERN = (?:\x00\x00|\xff\xff)+ at the
\* start of bs; 0 when the pattern does not match there
RECURSIVE SeparatorMatchLen(_)
SeparatorMatchLen(bs) ==
    IF Len(bs) >= 2 /\ IsSepPair(bs[1], bs[2])
    THEN 2 + SeparatorMatchLen(SubSeq(bs, 3, Len(bs)))
    ELSE 0

\* extract_string: the `end` its while loop stops at (offset >= 0)
RECURSIVE extract_string_end(_, _)
extract_string_end(d, end) ==
    IF end < Len(d) - 1
    THEN IF SeparatorMatchLen(Slice(d, end, end + 4)) > 0
         THEN end
         ELSE extract_string_end(d, end + 2)
    ELSE end

IsHighSurrogate(u) == 55296 <= u /\ u <= 56319
IsLowSurrogate(u) == 56320 <= u /\ u <= 57343

\* The 16-bit little-endian units of bs; a trailing odd byte is dropped
RECURSIVE Units(_)
Units(bs) ==
    IF Len(bs) < 2 THEN << >>
    ELSE << bs[1] + 256 * bs[2] >> \o Units(SubSeq(bs, 3, Len(bs)))

\* errors='ignore': a surrogate unit that is not part of a high+low pair is dropped
RECURSIVE DropLoneSurrogates(_)
DropLoneSurrogates(us) ==
    IF us = << >> THEN << >>
    ELSE IF IsHighSurrogate(us[1])
         THEN IF Len(us) >= 2 /\ IsLowSurrogate(us[2])
              THEN << us[1], us[2] >> \o DropLoneSurrogates(SubSeq(us, 3, Len(us)))
              ELSE DropLoneSurrogates(Tail(us))
         ELSE IF IsLowSurrogate(us[1])
              THEN DropLoneSurrogates(Tail(us))
              ELSE << us[1] >> \o DropLoneSurrogates(Tail(us))

\* Mutant of decode_utf16le: the units are read big-endian
decode_utf16be(bs) ==
    DropLoneSurrogates([i \in 1..(Len(bs) \div 2) |-> 256 * bs[2 * i - 1] + bs[2 * i]])

\* decode_utf16le: data.decode('utf-16le', errors='ignore')
decode_utf16le(bs) == DropLoneSurrogates(Units(bs))

\* encode_utf16le
encode_utf16le(text) == EncodeUtf16le(text)

\* b'\x20\x00' * pad_units
RECURSIVE SpaceUnits(_)
SpaceUnits(n) == IF n <= 0 THEN << >> ELSE << 32, 0 >> \o SpaceUnits(n - 1)

\* Mutant of FitToOriginal: a longer translation is not truncated
FitNoTruncate(translated_bytes, original_bytes) ==
    IF Len(translated_bytes) < Len(original_bytes)
    THEN translated_bytes
         \o SpaceUnits((Len(original_bytes) - Len(translated_bytes)) \div 2)
    ELSE translated_bytes

\* Mutant of FitToOriginal: the padding is made of 00 00 units
FitPadZero(translated_bytes, original_bytes) ==
    IF Len(translated_bytes) > Len(original_bytes)
    THEN SubSeq(translated_bytes, 1, Len(original_bytes))
    ELSE translated_bytes
         \o [k \in 1..(Len(original_bytes) - Len(translated_bytes)) |-> 0]

\* "Ajuster a la taille d'origine": truncate, or pad with (difference // 2) spaces
FitToOriginal(translated_bytes, original_bytes) ==
    IF Len(translated_bytes) > Len(original_bytes)
    THEN SubSeq(translated_bytes, 1, Len(original_bytes))
    ELSE IF Len(translated_bytes) < Len(original_bytes)
         THEN translated_bytes
              \o SpaceUnits((Len(original_bytes) - Len(translated_bytes)) \div 2)
         ELSE translated_bytes

\* Mutant of WriteInPlace: the separator is stored one unit too far
WriteInPlaceSepShifted(d, offset, original_bytes, translated_bytes, sep_bytes) ==
    LET d1 == SliceAssign(d, offset, offset + Len(original_bytes), translated_bytes)
    IN  IF sep_bytes # << >>
        THEN SliceAssign(d1, offset + Len(original_bytes) + 2,
                         offset + Len(original_bytes) + 2 + Len(sep_bytes), sep_bytes)
        ELSE d1

\* "Ecrire traduction + separation": the two slice assignments
WriteInPlace(d, offset, original_bytes, translated_bytes, sep_bytes) ==
    LET d1 == SliceAssign(d, offset, offset + Len(original_bytes), translated_bytes)
    IN  IF sep_bytes # << >>
        THEN SliceAssign(d1, offset + Len(original_bytes),
                         offset + Len(original_bytes) + Len(sep_bytes), sep_bytes)
        ELSE d1

\* What translate_text may return for original_text: the text itself (no
\* Japanese detected, or the request failed) or whatever the service answered
ServiceAnswers == UNION {[1..n -> {72}] : n \in 0..MaxAnswerUnits}
translate_text(original_text) == ServiceAnswers \cup {original_text}

\* Input images of the in-place patcher
PatchBytes == {0, 255, 65}
PatchImages == UNION {[1..n -> PatchBytes] : n \in 4..MaxPatchImageLen}

\* The dwords an IDA scan may have found: up to MaxPointers pointers whose
\* values lie around the image
ScannedDwords(d) ==
    UNION {[1..n -> [ea : {0}, val : {BASE_ADDR + o : o \in -1..(Len(d) + 1)}]]
             : n \in 1..MaxPointers}

----------------------------------------------------------------------------
(* In-place replacement test (safe_replacement_test.py) *)

\* data.find(search_bytes): the first offset at which pat occurs, -1 if none
FindBytes(d, pat) ==
    LET hits == {o \in 0..(Len(d) - Len(pat)) : Slice(d, o, o + Len(pat)) = pat}
    IN  IF hits = {} THEN -1 ELSE CHOOSE o \in hits : \A h \in hits : o <= h

\* replace_utf16_string: the bytes to store over the original text
replace_utf16_string(original_text, new_text) ==
    LET original_bytes == EncodeUtf16le(original_text)
        new_bytes == EncodeUtf16le(new_text)
    IN  IF Len(new_bytes) < Len(original_bytes)
        THEN new_bytes \o SpaceUnits((Len(original_bytes) - Len(new_bytes)) \div 2)
        ELSE IF Len(new_bytes) > Len(original_bytes)
             THEN SubSeq(new_bytes, 1, Len(original_bytes))
             ELSE new_bytes

\* The entries of TEST_REPLACEMENTS a run may hold
SearchTexts == {<< 65 >>, << 65, 65 >>}
TestReplacements == [search_japanese : SearchTexts, replace_english : ServiceAnswers]

InPlaceScripts == {"code_bin_trad_no_extend", "safe_replacement_test"}

InitInPlace ==
    /\ script \in InPlaceScripts
    /\ pc = "run"
    /\ data \in PatchImages
    /\ orig_len = Len(data)
    /\ cursor = 0
    /\ idx = 0
    /\ log = << >>
    /\ output = << >>
    /\ IF script = "code_bin_trad_no_extend"
       THEN \E dwords \in ScannedDwords(data) :
               pointers = read_pointers(Table(dwords, BASE_ADDR, BASE_ADDR + Len(data)))
       ELSE pointers = << >>
    /\ NoTable /\ NoHeader /\ NoCodec

\* One iteration of the loop of patch_binary
PatchString ==
    /\ pc = "run"
    /\ script = "code_bin_trad_no_extend"
    /\ idx < Len(pointers)
    /\ LET offset == pointers[idx + 1].source
           end == extract_string_end(data, offset)
           original_bytes == Slice(data, offset, end)
           original_text == decode_utf16le(original_bytes)
       IN  \E translated_text \in translate_text(original_text) :
             LET sep_bytes == LET rest == Slice(data, end, Len(data))
                              IN  SubSeq(rest, 1, SeparatorMatchLen(rest))
                 translated_bytes ==
                     FitToOriginal(encode_utf16le(translated_text), original_bytes)
             IN  /\ data' = WriteInPlace(data, offset, original_bytes,
                                         translated_bytes, sep_bytes)
                 /\ log' = Append(log, [offset |-> offset,
                                        size |-> pointers[idx + 1].size,
                                        end |-> end,
                                        original_bytes |-> original_bytes,
                                        new_text |-> translated_text,
                                        sep_bytes |-> sep_bytes,
                                        replaced |-> TRUE])
    /\ idx' = idx + 1
    /\ UNCHANGED <<script, pc, orig_len, cursor, output, pointers, tableVars, headerVars, codecVars>>

\* f.write(data) after the loop
WritePatched ==
    /\ pc = "run"
    /\ script = "code_bin_trad_no_extend"
    /\ idx = Len(pointers)
    /\ output' = << data >>
    /\ pc' = "done"
    /\ UNCHANGED <<script, data, orig_len, cursor, idx, log, pointers, tableVars, headerVars, codecVars>>

\* One iteration of the loop of safe_replacement_test.main
SafeReplace ==
    /\ pc = "run"
    /\ script = "safe_replacement_test"
    /\ idx < MaxReplacements
    /\ \E replacement \in TestReplacements :
         LET search_bytes == EncodeUtf16le(replacement.search_japanese)
             offset == FindBytes(data, search_bytes)
             new_bytes == replace_utf16_string(replacement.search_japanese,
                                               replacement.replace_english)
             original_length == Len(search_bytes)
         IN  /\ data' = IF offset # -1
                        THEN SliceAssign(data, offset, offset + original_length, new_bytes)
                        ELSE data
             /\ log' = Append(log, [offset |-> offset,
                                    size |-> original_length,
                                    end |-> offset + original_length,
                                    original_bytes |-> search_bytes,
                                    new_text |-> replacement.replace_english,
                                    sep_bytes |-> << >>,
                                    replaced |-> offset # -1])
    /\ idx' = idx + 1
    /\ UNCHANGED <<script, pc, orig_len, cursor, output, pointers, tableVars, headerVars, codecVars>>

\* `if replacements_made > 0: OUTPUT_BIN.write_bytes(data)`
FinishSafeTest ==
    /\ pc = "run"
    /\ script = "safe_replacement_test"
    /\ output' = IF \E i \in DOMAIN log : log[i].replaced THEN << data >> ELSE << >>
    /\ pc' = "done"
    /\ UNCHANGED <<script, data, orig_len, cursor, idx, log, pointers, tableVars, headerVars, codecVars>>

NextInPlace == PatchString \/ WritePatched \/ SafeReplace \/ FinishSafeTest

SpecInPlace == InitInPlace /\ [][NextInPlace]_vars

----------------------------------------------------------------------------
(* Text codec (decode_utf16le / encode_utf16le of code_bin_trad_no_extend.py) *)

\* text.encode('utf-16le') raises UnicodeEncodeError on a surrogate that is
\* not half of a pair
EncodeRaises(t) == DropLoneSurrogates(t) # t

\* Inputs: texts over NUL, 'A', the euro sign and the two halves of U+1F600
CodecUnits == {0, 65, 8364, 55357, 56832}
CodecTexts == UNION {[1..n -> CodecUnits] : n \in 0..MaxTextLen}

InitCodec ==
    /\ script = "code_bin_trad_no_extend"
    /\ pc = "codec"
    /\ data = << >>
    /\ orig_len = 0
    /\ cursor = 0
    /\ idx = 0
    /\ log = << >>
    /\ output = << >>
    /\ pointers = << >>
    /\ NoTable /\ NoHeader
    /\ input_text \in CodecTexts
    /\ decompressed = << >>

\* encode_utf16le(text)
EncodeText ==
    /\ pc = "codec"
    /\ IF EncodeRaises(input_text)
       THEN pc' = "crashed" /\ UNCHANGED data
       ELSE pc' = "encoded" /\ data' = encode_utf16le(input_text)
    /\ UNCHANGED <<script, orig_len, cursor, idx, log, output, pointers, tableVars, headerVars, codecVars>>

\* decode_utf16le(data) on the bytes encode_utf16le returned
DecodeBytes ==
    /\ pc = "encoded"
    /\ output' = << decode_utf16le(data) >>
    /\ pc' = "decoded"
    /\ UNCHANGED <<script, data, orig_len, cursor, idx, log, pointers, tableVars, headerVars, codecVars>>

NextCodec == EncodeText \/ DecodeBytes

SpecCodec == InitCodec /\ [][NextCodec]_vars

----------------------------------------------------------------------------
(* Exheader patchers (scripts/patch_exheader.py, patch_exheader_fixed.py) *)

PAGE_SIZE == 4096             \* 0x1000
DATA_SIZE == 1818488          \* 0x001BBF78
BSS_SIZE == 1971964           \* 0x001E16FC
EXHEADER_MIN == 56            \* 0x38

\* Mutant of round_up_0x1000: `val & ~0xFFF`, which rounds down
round_down_0x1000(val) == (val \div PAGE_SIZE) * PAGE_SIZE

\* Mutant of round_up_0x1000: always moves to the next page, also from a
\* value that is already aligned
round_up_next_0x1000(val) == ((val \div PAGE_SIZE) + 1) * PAGE_SIZE

\* Mutant of round_up_0x1000: `(val + 0x800) & ~0xFFF`, which rounds to the
\* nearest page
round_nearest_0x1000(val) == ((val + (PAGE_SIZE \div 2)) \div PAGE_SIZE) * PAGE_SIZE

\* round_up_0x1000: (val + 0xFFF) & ~0xFFF
round_up_0x1000(val) == ((val + (PAGE_SIZE - 1)) \div PAGE_SIZE) * PAGE_SIZE

\* bs read as an unsigned 32-bit little-endian number
U32LE(bs) == bs[1] + 256 * bs[2] + 65536 * bs[3] + 16777216 * bs[4]

\* Mutant of PatchFields: the page count is stored four bytes too early
PatchFieldsPagesShifted(ex, code_size, new_data_size, pages) ==
    LET ex1 == SliceAssign(ex, 0, 4, LE32(code_size))
        ex2 == SliceAssign(ex1, 8, 12, LE32(0))
        ex3 == SliceAssign(ex2, 12, 16, LE32(new_data_size))
    IN  SliceAssign(ex3, 48, 52, LE32(pages))

\* The four struct.pack / slice assignments of patch_exheader
PatchFields(ex, code_size, new_data_size, pages) ==
    LET ex1 == SliceAssign(ex, 0, 4, LE32(code_size))
        ex2 == SliceAssign(ex1, 8, 12, LE32(0))
        ex3 == SliceAssign(ex2, 12, 16, LE32(new_data_size))
    IN  SliceAssign(ex3, 52, 56, LE32(pages))

\* The values patch_exheader computes from the two file sizes
Computed(padded, patched) ==
    LET delta == patched - padded
        base_data_size == DATA_SIZE + BSS_SIZE
        raw_new_data_size == base_data_size + delta
        new_data_size == round_up_0x1000(raw_new_data_size)
    IN  [delta |-> delta,
         new_data_size |-> new_data_size,
         pages |-> new_data_size \div PAGE_SIZE,
         code_size |-> round_up_0x1000(patched)]

\* The growth that makes base_data_size + delta a multiple of the page size
AligningDelta == PAGE_SIZE - ((DATA_SIZE + BSS_SIZE) % PAGE_SIZE)
\* Inputs: file sizes around page boundaries (-1: the file is missing)
FileSizes ==
    {p * PAGE_SIZE + r : p \in 0..MaxPages, r \in {-1, 0, 1, AligningDelta}} \ {-1}
\* Inputs: headers declaring a code size, with byte i = (3 * i + 1) % 256 elsewhere
HeaderCodeSizes == {0, PAGE_SIZE, 5 * PAGE_SIZE}
Headers ==
    {[i \in 1..n |-> IF i <= 4 THEN LE32(c)[i] ELSE (3 * i + 1) % 256]
       : n \in (EXHEADER_MIN - 1)..(EXHEADER_MIN + MaxHeaderExtra), c \in HeaderCodeSizes}

HeaderScripts == {"patch_exheader", "patch_exheader_fixed"}

InitHeader ==
    /\ script \in HeaderScripts
    /\ pc = "run"
    /\ data = << >>
    /\ orig_len = 0
    /\ cursor = 0
    /\ idx = 0
    /\ log = << >>
    /\ output = << >>
    /\ pointers = << >>
    /\ NoTable /\ NoCodec
    /\ ex_file \in {<< >>} \cup {<< h >> : h \in Headers}
    /\ size_padded \in FileSizes \cup {-1}
    /\ size_patched \in FileSizes \cup {-1}

\* scripts/patch_exheader.py: patch_exheader, which catches nothing
PatchExheader ==
    /\ pc = "run"
    /\ script = "patch_exheader"
    /\ IF size_padded = -1 \/ size_patched = -1 \/ ex_file = << >>
       THEN /\ pc' = "crashed"
            /\ UNCHANGED <<log, output>>
       ELSE LET c == Computed(size_padded, size_patched)
            IN  /\ output' = << PatchFields(ex_file[1], c.code_size, c.new_data_size, c.pages) >>
                /\ log' = Append(log, c)
                /\ pc' = "done"
    /\ UNCHANGED <<script, data, orig_len, cursor, idx, pointers, tableVars, headerVars, codecVars>>

\* patch_exheader_fixed.py: patch_exheader, which returns False on a missing
\* file and on a header shorter than 0x38 bytes
PatchExheaderFixed ==
    /\ pc = "run"
    /\ script = "patch_exheader_fixed"
    /\ IF size_padded = -1 \/ size_patched = -1
       THEN /\ pc' = "failed"
            /\ UNCHANGED <<log, output>>
       ELSE LET c == Computed(size_padded, size_patched)
            IN  IF ex_file = << >> \/ Len(ex_file[1]) < EXHEADER_MIN
                THEN /\ pc' = "failed"
                     /\ log' = Append(log, c)
                     /\ UNCHANGED output
                ELSE /\ output' = << PatchFields(ex_file[1], c.code_size,
                                                 c.new_data_size, c.pages) >>
                     /\ log' = Append(log, c)
                     /\ pc' = "done"
    /\ UNCHANGED <<script, data, orig_len, cursor, idx, pointers, tableVars, headerVars, codecVars>>

NextHeader == PatchExheader \/ PatchExheaderFixed

SpecHeader == InitHeader /\ [][NextHeader]_vars

----------------------------------------------------------------------------
(* RTZ containers (scripts/recompress_rtz.py, scripts/decompress_rtz.py, *)
(* scripts/zero_text_injector.py)                                        *)

MIN_RTZ_SIZE == 100           \* `100 < size` of ZeroTextInjector.decompress_rtz
MAX_RTZ_SIZE == 10000000      \* `size < 10000000`
GZIP_MAGIC == << 31, 139 >>   \* b'\x1f\x8b'

\* gzip.compress, reduced to what a reader of the stream relies on: the magic
\* number, the payload, and the ISIZE trailer (payload length, little-endian)
gzip_compress(raw) == GZIP_MAGIC \o raw \o LE32(Len(raw))

\* gzip.decompress accepts the blob
IsGzip(blob) ==
    /\ Len(blob) >= 6
    /\ SubSeq(blob, 1, 2) = GZIP_MAGIC
    /\ U32LE(SubSeq(blob, Len(blob) - 3, Len(blob))) = Len(blob) - 6

\* gzip.decompress of an accepted blob
gzip_decompress(blob) == SubSeq(blob, 3, Len(blob) - 4)

\* header + gzip_blob: struct.pack('<I', len(raw)) followed by the stream
Container(raw) == LE32(Len(raw)) \o gzip_compress(raw)

\* Inputs: files of a repeated byte, short ones and ones around MIN_RTZ_SIZE
RawLens == (0..MaxSmallRaw) \cup (MIN_RTZ_SIZE..(MIN_RTZ_SIZE + MaxSmallRaw))
RawFiles == {[i \in 1..n |-> b] : n \in RawLens, b \in {0, 65, 255}}

\* recompress_rtz stands for the pair recompress_rtz.py / decompress_rtz.py
ContainerScripts == {"recompress_rtz", "zero_text_injector"}

\* bytes.count(pat): the non-overlapping occurrences of pat, left to right
RECURSIVE CountBytes(_, _)
CountBytes(d, pat) ==
    IF Len(d) < Len(pat) THEN 0
    ELSE IF SubSeq(d, 1, Len(pat)) = pat
         THEN 1 + CountBytes(SubSeq(d, Len(pat) + 1, Len(d)), pat)
         ELSE CountBytes(Tail(d), pat)

\* bytes.replace(pat, new)
RECURSIVE ReplaceBytes(_, _, _)
ReplaceBytes(d, pat, new) ==
    IF Len(d) < Len(pat) THEN d
    ELSE IF SubSeq(d, 1, Len(pat)) = pat
         THEN new \o ReplaceBytes(SubSeq(d, Len(pat) + 1, Len(d)), pat, new)
         ELSE << Head(d) >> \o ReplaceBytes(Tail(d), pat, new)

\* data[alignment:], without its last byte when the length is odd
AlignedData(d, alignment) ==
    LET a == Slice(d, alignment, Len(d))
    IN  IF Len(a) % 2 = 1 THEN SubSeq(a, 1, Len(a) - 1) ELSE a

\* final_data = header + recompressed, header being the input file's prefix
PreciseContainer(header, modified_data) == header \o gzip_compress(modified_data)

\* Inputs of precision_rtz_injector.py: the decompressed content of the input
\* container, the translations and the alignments of the search results
\* (-1: find_best_alignment_for_text returned None)
PreciseFiles == UNION {[1..n -> {0, 65}] : n \in 2..MaxPreciseLen}
Translations == [japanese : {<< 65 >>}, english : {<< 72 >>, << 72, 72 >>}]
Alignments == {-1, 0, 1}

InitContainer ==
    /\ \/ script \in ContainerScripts /\ data \in RawFiles
       \/ script = "precision_rtz_injector" /\ data \in PreciseFiles
    /\ pc = "run"
    /\ orig_len = Len(data)
    /\ cursor = 0
    /\ idx = 0
    /\ log = << >>
    /\ output = << >>
    /\ pointers = << >>
    /\ NoTable /\ NoHeader /\ NoCodec

\* recompress_rtz.py: recompress_rtz_from_patched
RecompressRtz ==
    /\ pc = "run"
    /\ script = "recompress_rtz"
    /\ output' = << Container(data) >>
    /\ pc' = "compressed"
    /\ UNCHANGED <<script, data, orig_len, cursor, idx, log, pointers, tableVars, headerVars, codecVars>>

\* decompress_rtz.py: decompress_rtz on the file recompress_rtz.py wrote; a
\* size that differs from the prefix is only warned about
DecompressRtz ==
    /\ pc = "compressed"
    /\ script = "recompress_rtz"
    /\ LET gzip_blob == Slice(output[1], 4, Len(output[1]))
       IN  IF IsGzip(gzip_blob)
           THEN /\ decompressed' = << gzip_decompress(gzip_blob) >>
                /\ pc' = "decompressed"
           ELSE /\ pc' = "failed"
                /\ UNCHANGED decompressed
    /\ UNCHANGED <<script, data, orig_len, cursor, idx, log, output, pointers, tableVars, headerVars, input_text>>

\* zero_text_injector.py: ZeroTextInjector.compress_rtz
CompressRtz ==
    /\ pc = "run"
    /\ script = "zero_text_injector"
    /\ output' = << Container(data) >>
    /\ pc' = "compressed"
    /\ UNCHANGED <<script, data, orig_len, cursor, idx, log, pointers, tableVars, headerVars, codecVars>>

\* zero_text_injector.py: ZeroTextInjector.decompress_rtz on that container;
\* it returns None ("rejected") for a short file, a size prefix outside
\* (100, 10000000), a missing gzip magic or a gzip error
InjectorDecompressRtz ==
    /\ pc = "compressed"
    /\ script = "zero_text_injector"
    /\ LET c == output[1]
           gzip_data == Slice(c, 4, Len(c))
       IN  IF \/ Len(c) < 4
              \/ ~(MIN_RTZ_SIZE < U32LE(Slice(c, 0, 4)) /\ U32LE(Slice(c, 0, 4)) < MAX_RTZ_SIZE)
              \/ Slice(gzip_data, 0, 2) # GZIP_MAGIC
              \/ ~IsGzip(gzip_data)
           THEN /\ pc' = "rejected"
                /\ UNCHANGED decompressed
           ELSE /\ decompressed' = << gzip_decompress(gzip_data) >>
                /\ pc' = "decompressed"
    /\ UNCHANGED <<script, data, orig_len, cursor, idx, log, output, pointers, tableVars, headerVars, input_text>>

\* precision_rtz_injector.py: one iteration of the translation loop of
\* inject_with_precise_alignment, with replace_text_with_alignment and
\* get_modified_data
ReplaceTextWithAlignment ==
    /\ pc = "run"
    /\ script = "precision_rtz_injector"
    /\ idx < MaxTranslations
    /\ \E translation \in Translations, best_alignment \in Alignments :
         LET search_bytes == EncodeUtf16le(translation.japanese)
             replace_bytes == EncodeUtf16le(translation.english)
             aligned_data == AlignedData(data, best_alignment)
             count_before == IF best_alignment = -1 THEN 0
                             ELSE CountBytes(aligned_data, search_bytes)
             modified == ReplaceBytes(aligned_data, search_bytes, replace_bytes)
             replacements_made == IF count_before = 0 THEN 0
                                  ELSE count_before - CountBytes(modified, search_bytes)
         IN  /\ data' = IF replacements_made > 0 THEN modified ELSE data
             /\ cursor' = IF replacements_made > 0 THEN cursor + replacements_made
                          ELSE cursor
             /\ log' = Append(log, [translation |-> translation,
                                    alignment |-> best_alignment,
                                    replacements_made |-> replacements_made])
    /\ idx' = idx + 1
    /\ UNCHANGED <<script, pc, orig_len, output, pointers, tableVars, headerVars, codecVars>>

\* precision_rtz_injector.py: the end of inject_with_precise_alignment, which
\* writes the file only `if successful_replacements > 0`
SavePrecise ==
    /\ pc = "run"
    /\ script = "precision_rtz_injector"
    /\ IF cursor > 0
       THEN /\ output' = << PreciseContainer(LE32(orig_len), data) >>
            /\ pc' = "done"
       ELSE /\ pc' = "failed"
            /\ UNCHANGED output
    /\ UNCHANGED <<script, data, orig_len, cursor, idx, log, pointers, tableVars, headerVars, codecVars>>

NextContainer ==
    \/ RecompressRtz \/ DecompressRtz \/ CompressRtz \/ InjectorDecompressRtz
    \/ ReplaceTextWithAlignment \/ SavePrecise

SpecContainer == InitContainer /\ [][NextContainer]_vars

----------------------------------------------------------------------------
(* String extractor (scripts/extract_from_pointer.py) *)

\* is_separator: the pair is 00 00 or FF FF
is_separator(pair) == Len(pair) = 2 /\ IsSepPair(pair[1], pair[2])

\* strip_trailing_separators: [chunk, sep]
RECURSIVE strip_trailing_separators(_)
strip_trailing_separators(chunk) ==
    IF Len(chunk) >= 2 /\ is_separator(SubSeq(chunk, Len(chunk) - 1, Len(chunk)))
    THEN LET r == strip_trailing_separators(SubSeq(chunk, 1, Len(chunk) - 2))
         IN  [chunk |-> r.chunk,
              sep |-> r.sep \o SubSeq(chunk, Len(chunk) - 1, Len(chunk))]
    ELSE [chunk |-> chunk, sep |-> << >>]

\* escape_newlines: text.replace(NEWLINE, DAGGER)
escape_newlines(text) ==
    [i \in 1..Len(text) |-> IF text[i] = NEWLINE THEN DAGGER ELSE text[i]]

\* text.rstrip('\x00')
RECURSIVE RStripNul(_)
RStripNul(text) ==
    IF text # << >> /\ Last(text) = 0
    THEN RStripNul(SubSeq(text, 1, Len(text) - 1))
    ELSE text

\* Variant of SortedList: the list is kept in the order it was built in
KeptInInputOrder(v) == v

\* sorted(v) for a list of integers (duplicates kept)
RECURSIVE SortedList(_)
SortedList(v) ==
    IF v = << >> THEN << >>
    ELSE LET m == CHOOSE i \in 1..Len(v) : \A j \in 1..Len(v) : v[i] <= v[j]
         IN  << v[m] >> \o SortedList(SubSeq(v, 1, m - 1) \o SubSeq(v, m + 1, Len(v)))

\* load_and_group_pointers: the in-range values in ascending order, each with
\* the sorted list of the locations that hold it
load_and_group_pointers(rows, PATCH_START, PATCH_END) ==
    LET kept == SelectSeq(rows, LAMBDA r : PATCH_START <= r.val /\ r.val < PATCH_END)
        keys == SortedSeq({kept[i].val : i \in 1..Len(kept)})
    IN  [k \in 1..Len(keys) |->
           LET grp == SelectSeq(kept, LAMBDA r : r.val = keys[k])
           IN  [val |-> keys[k], offs |-> SortedList([i \in 1..Len(grp) |-> grp[i].ea])]]

\* str.isprintable() of the unit u, for the units the model's images hold
IsPrintable(u) ==
    /\ u \notin {0, NEWLINE, 65280, 65535}
    /\ ~IsHighSurrogate(u) /\ ~IsLowSurrogate(u)

\* The test that keeps a value in valid_vals
IsValidVal(d, val) ==
    LET fo == val - BASE_ADDR
        first == Slice(d, fo, fo + 2)
    IN  /\ ~(fo < 2 \/ ~is_separator(Slice(d, fo - 2, fo)))
        /\ Len(first) # 1
        /\ Len(first) = 2 => IsPrintable(Units(first)[1])

\* Variant of Hex02: only the low hex digit of the byte is written
HexLowDigit(b) == << HexDigits[(b % 16) + 1] >>

\* f"{b:02X}"
Hex02(b) == << HexDigits[(b \div 16) + 1], HexDigits[(b % 16) + 1] >>

\* " ".join(f"{b:02X}" for b in sep_bytes) or "(aucun)", as its tokens
SepField(sep_bytes) ==
    IF sep_bytes = << >> THEN << Aucun >>
    ELSE [i \in 1..Len(sep_bytes) |-> Hex02(sep_bytes[i])]

\* Variant of ExtentEnd: every extent is one 16-bit unit long
ExtentEndOneUnit(valid, n, PATCH_END) == valid[n].val - BASE_ADDR + 2

\* Variant of ExtentEnd: every extent runs to the end of the region
ExtentEndAlwaysRegionEnd(valid, n, PATCH_END) == PATCH_END - BASE_ADDR

\* end of the n-th extent: the next valid value, or PATCH_END for the last
ExtentEnd(valid, n, PATCH_END) ==
    IF n + 1 <= Len(valid) THEN valid[n + 1].val - BASE_ADDR
    ELSE PATCH_END - BASE_ADDR

\* The result rows of extract_strings, each with the extent it was read from
ExtractResults(d, rows, PATCH_START, PATCH_END) ==
    LET ptr_map == load_and_group_pointers(rows, PATCH_START, PATCH_END)
        valid == SelectSeq(ptr_map, LAMBDA g : IsValidVal(d, g.val))
    IN  [n \in 1..Len(valid) |->
           LET start == valid[n].val - BASE_ADDR
               end == ExtentEnd(valid, n, PATCH_END)
               stripped == strip_trailing_separators(Slice(d, start, end))
               text == RStripNul(decode_utf16le(stripped.chunk))
           IN  [pointer_offsets |-> valid[n].offs,
                pointer_value |-> valid[n].val,
                separators |-> SepField(stripped.sep),
                extract |-> escape_newlines(text),
                start |-> start,
                end |-> end]]

\* Inputs: images made of 16-bit units, pointer records, target regions
ExtractUnits == {<< 0, 0 >>, << 255, 255 >>, << 65, 0 >>}
\* Images whose string, after a separator pair, holds line breaks and daggers
EscapeImages ==
    {<< 0, 0 >> \o EncodeUtf16le(<< u, v >>) : u, v \in {65, NEWLINE, DAGGER}}
ExtractImages ==
    {Concat(us) : us \in UNION {[1..n -> ExtractUnits] : n \in 1..MaxExtractUnits}}
        \cup EscapeImages
PointerRecords ==
    [ea : {BASE_ADDR + 16, BASE_ADDR + 32},
     val : {BASE_ADDR + 2 * k : k \in 0..MaxExtractUnits}]
RecordLists == UNION {[1..n -> PointerRecords] : n \in 1..MaxRecords}

TableScripts == {"IDA_export_pointers", "extract_from_pointer"}

InitTable ==
    /\ script \in TableScripts
    /\ pc = "run"
    /\ IF script = "extract_from_pointer" THEN data \in ExtractImages ELSE data = << >>
    /\ orig_len = 0
    /\ cursor = 0
    /\ idx = 0
    /\ log = << >>
    /\ output = << >>
    /\ pointers = << >>
    /\ records \in RecordLists
    /\ \E s \in {0, 2} :
         region = [start |-> BASE_ADDR + s,
                   end |-> BASE_ADDR + (IF script = "extract_from_pointer"
                                        THEN Len(data) ELSE 2 * MaxExtractUnits)]
    /\ NoHeader /\ NoCodec

\* IDA_export_pointers.py, from the scan to the written CSV
ExportTable ==
    /\ pc = "run"
    /\ script = "IDA_export_pointers"
    /\ output' = << Table(records, region.start, region.end) >>
    /\ pc' = "done"
    /\ UNCHANGED <<script, data, orig_len, cursor, idx, log, pointers, tableVars, headerVars, codecVars>>

\* IDA_export_pointers.py when the save dialog is dismissed: nothing is written
ExportCancelled ==
    /\ pc = "run"
    /\ script = "IDA_export_pointers"
    /\ pc' = "cancelled"
    /\ UNCHANGED <<script, data, orig_len, cursor, idx, log, output, pointers, tableVars, headerVars, codecVars>>

\* extract_from_pointer.py: extract_strings
ExtractStrings ==
    /\ pc = "run"
    /\ script = "extract_from_pointer"
    /\ output' = << ExtractResults(data, records, region.start, region.end) >>
    /\ pc' = "done"
    /\ UNCHANGED <<script, data, orig_len, cursor, idx, log, pointers, tableVars, headerVars, codecVars>>

NextTable == ExportTable \/ ExportCancelled \/ ExtractStrings

SpecTable == InitTable /\ [][NextTable]_vars

----------------------------------------------------------------------------
(* Properties of the relocation injectors *)

\* The step just taken processed a row and appended its payload
Relocated == idx' = idx + 1 /\ Last(log').appended

\* The file offsets named by a row's pointer_offsets field
RowOffsets(row) == {row.pointer_offsets[i] - BASE_ADDR : i \in 1..Len(row.pointer_offsets)}

\* Every pointer location of the row lies in the image d: 0 <= off, off + 4 <= len
AllInBounds(row, d) == \A off \in RowOffsets(row) : 0 <= off /\ off + 4 <= Len(d)

\* No two distinct pointer slots of the row share a byte
NonOverlapping(row) ==
    \A a, b \in RowOffsets(row) : a = b \/ a + 4 <= b \/ b + 4 <= a

\* C1: every append grows the image by exactly len(payload), the address
\* handed out is BASE_ADDR + (image length just before the append), and the
\* cursor equals the image length at the start of every entry.
C1_AppendAtCursor ==
    [][ /\ cursor = Len(data)
        /\ cursor' = Len(data')
        /\ Relocated =>
             /\ Len(data') = Len(data) + Len(Last(log').block)
             /\ Last(log').new_addr = BASE_ADDR + Len(data) ]_vars

\* C1 witness: a row with a non-empty payload was appended after one of its
\* pointers was rewritten, on a cursor that had already moved.
C1_Witness ==
    /\ Len(log) = 2
    /\ log[2].appended
    /\ log[2].block # << >>
    /\ log[2].patched # << >>
    /\ log[2].new_addr > BASE_ADDR + orig_len

\* C2 as stated: after relocating an entry whose pointer locations are all in
\* bounds, every location holds the little-endian new address, the address is
\* BASE_ADDR + (length before the append), and the payload sits at that address.
C2_AllPointersHoldNewAddress ==
    [][ (Relocated /\ AllInBounds(Last(log').row, data)) =>
          LET row == Last(log').row
              new_addr == BASE_ADDR + Len(data)
          IN  /\ \A off \in RowOffsets(row) : Slice(data', off, off + 4) = LE32(new_addr)
              /\ Last(log').new_addr = new_addr
              /\ Slice(data', Len(data), Len(data')) =
                   EncodeUtf16le(UnescapeNewlines(row.extract))
                     \o parse_separators(row.separators) ]_vars

\* C2 amended: the same, for an entry whose pointer slots do not overlap one
\* another (any two locations are equal or at least 4 bytes apart).
C2_DisjointPointersHoldNewAddress ==
    [][ (Relocated /\ AllInBounds(Last(log').row, data) /\ NonOverlapping(Last(log').row)) =>
          LET row == Last(log').row
              new_addr == BASE_ADDR + Len(data)
          IN  /\ \A off \in RowOffsets(row) : Slice(data', off, off + 4) = LE32(new_addr)
              /\ Last(log').new_addr = new_addr
              /\ Slice(data', Len(data), Len(data')) =
                   EncodeUtf16le(UnescapeNewlines(row.extract))
                     \o parse_separators(row.separators) ]_vars

\* C2 witness: the first row named two disjoint in-bounds pointer slots of the
\* input image and carried a text with a line break and a separator.
C2_Witness ==
    /\ Len(log) = 1
    /\ log[1].appended
    /\ log[1].patched = << 0, 4 >>
    /\ log[1].row.extract = << DAGGER >>
    /\ log[1].block = << 10, 0, 0, 0 >>
    /\ Slice(data, 0, 4) = Slice(data, 4, 8)

\* C3 as stated: the addresses handed out to the entries of a run are strictly
\* increasing in entry order (no two entries receive the same address).
C3_AddressesStrictlyIncreasing ==
    \A i, j \in DOMAIN log :
        (i < j /\ log[i].appended /\ log[j].appended) => log[i].new_addr < log[j].new_addr

\* C4 as stated: when the run has completed, every pointer slot it rewrote
\* holds a value v with 0 <= v - BASE_ADDR < final image length.
C4_RewrittenPointersInImage ==
    pc = "done" =>
        \A i \in DOMAIN log : \A k \in DOMAIN log[i].patched :
            LET off == log[i].patched[k]
            IN  \E o \in 0..(Len(data) - 1) : Slice(data, off, off + 4) = LE32(BASE_ADDR + o)

\* C9: rewriting the same pointer locations to the same address twice gives
\* the image that rewriting them once gives (for every pointer list and
\* address a run rewrites).
C9_RewriteIdempotent ==
    [][ (idx' = idx + 1 /\ script \in MultiScripts) =>
          LET ptrs == Last(log').row.pointer_offsets
              new_addr == Last(log').new_addr
              once == RewritePointers(data, ptrs, new_addr)
          IN  RewritePointers(once, ptrs, new_addr) = once ]_vars

\* C9 witness: a row rewrote two overlapping in-bounds pointer slots, so the
\* image on which the rewrite is repeated differs from the input image.
C9_Witness ==
    /\ Len(log) >= 1
    /\ log[1].patched = << 0, 2 >>
    /\ Slice(data, 0, 6) # << 160, 161, 162, 163, 164, 165 >>

\* The step just taken ran one iteration of an injector's loop
RowProcessed == idx' = idx + 1 /\ script \in RelocScripts

\* C12 as stated: no entry is left half-applied; for every processed entry
\* either all of its pointer locations were rewritten and its payload was
\* appended, or none of its pointer locations was changed and nothing was
\* appended for it.
C12_NoHalfAppliedEntry ==
    \A i \in DOMAIN log :
        \/ Len(log[i].patched) = Len(log[i].row.pointer_offsets) /\ log[i].appended
        \/ log[i].patched = << >> /\ ~log[i].appended

\* The logged entry named a pointer location outside the image it was applied
\* to, whose length was the cursor: new_addr - BASE_ADDR
EntryOutOfBounds(e) ==
    \E off \in RowOffsets(e.row) : off < 0 \/ off + 4 > e.new_addr - BASE_ADDR

\* C13 as stated: an out-of-bounds pointer location never aborts the run, and
\* every later entry whose pointer locations are all in bounds has all its
\* pointers rewritten and its payload appended.
C13_RunContinuesAfterOutOfBounds ==
    [][ (RowProcessed /\ \E i \in DOMAIN log : EntryOutOfBounds(log[i]))
          => /\ pc' = "run"
             /\ AllInBounds(Last(log').row, data) =>
                  /\ Last(log').appended
                  /\ Len(Last(log').patched) = Len(Last(log').row.pointer_offsets) ]_vars

\* C19 as stated: a pointer location at or beyond the original image length
\* is rejected, so no rewrite changes a byte of a payload appended earlier in
\* the run.
C19_NoWriteIntoArena ==
    [][ RowProcessed =>
          /\ \A k \in DOMAIN Last(log').patched : Last(log').patched[k] + 4 <= orig_len
          /\ Slice(data', orig_len, Len(data)) = Slice(data, orig_len, Len(data)) ]_vars

\* C20 as stated: an entry with an out-of-bounds pointer location leaves the
\* image as it was (no pointer written, nothing appended, same length) and
\* leaves the cursor where it was, so the next entry gets the address the
\* skipped entry would have received.
C20_OutOfBoundsEntrySkipped ==
    [][ (RowProcessed /\ ~AllInBounds(Last(log').row, data)) =>
          /\ data' = data
          /\ cursor' = cursor ]_vars

\* C21 as stated: every injector accepts exactly the pointer locations with
\* 0 <= off and off + 4 <= len(image); a pointer in the last four bytes of the
\* image is rewritten and only locations violating the bound are rejected.
C21_AcceptsExactlyInBounds ==
    [][ RowProcessed =>
          LET e == Last(log')
          IN  \A off \in RowOffsets(e.row) :
                (0 <= off /\ off + 4 <= Len(data))
                    <=> (\E k \in DOMAIN e.patched : e.patched[k] = off) ]_vars

\* The file offset o lies in one of the 4-byte slots the entry e rewrote
InPatchedSlot(e, o) ==
    \E k \in DOMAIN e.patched : e.patched[k] <= o /\ o < e.patched[k] + 4

\* C27: a relocation run changes the original image region only inside the
\* 4-byte pointer slots its entries rewrite (every other byte below the
\* original length keeps its value), the image never gets shorter, and the
\* image is what is written out.
C27_OnlyPointerSlotsChange ==
    [][ /\ RowProcessed =>
             /\ Len(data') >= Len(data)
             /\ \A o \in 0..(orig_len - 1) :
                  ~InPatchedSlot(Last(log'), o) => data'[o + 1] = data[o + 1]
        /\ (script \in RelocScripts /\ pc' = "done") =>
             /\ output' = << data >>
             /\ Len(data) >= orig_len ]_vars

\* C27 witness: a finished run rewrote the slot at offset 2 and appended a
\* payload; the bytes before and after the slot are those of the input.
C27_Witness ==
    /\ script \in RelocScripts
    /\ pc = "done"
    /\ Len(log) = 1
    /\ log[1].patched = << 2 >>
    /\ Len(output[1]) > orig_len
    /\ Slice(output[1], 0, 2) = << 160, 161 >>
    /\ Slice(output[1], 2, 6) = LE32(log[1].new_addr)
    /\ Slice(output[1], 6, 8) = << 166, 167 >>

----------------------------------------------------------------------------
(* Properties of in-place replacement *)

\* The step just taken replaced a string in place
Replaced == idx' = idx + 1 /\ Last(log').replaced

\* C6: in-place replacement never changes the image length, whatever the
\* replacement texts: the image always has the length it was loaded with.
C6_InPlaceKeepsLength == Len(data) = orig_len

\* C6 witness: a finished run truncated one replacement and padded another.
C6_Witness ==
    /\ pc = "done"
    /\ \E i, j \in DOMAIN log :
         /\ log[i].replaced /\ log[j].replaced
         /\ 2 * Len(log[i].new_text) > Len(log[i].original_bytes)
         /\ Len(log[i].original_bytes) > 0
         /\ 2 * Len(log[j].new_text) < Len(log[j].original_bytes)

StringPatched == idx' = idx + 1 /\ script = "code_bin_trad_no_extend"

\* The 16-bit unit of d at file offset o is a 00 00 or FF FF pair
PairAt(d, o) == o + 2 <= Len(d) /\ IsSepPair(d[o + 1], d[o + 2])

\* C17 as stated: the content_end the forward scan returns lies inside the
\* extent, start <= content_end <= byte_range.end = start + size, even when
\* no separator pair occurs inside the extent.
C17_ScanStaysInExtent ==
    script = "code_bin_trad_no_extend" =>
        \A i \in DOMAIN log :
            /\ log[i].offset <= log[i].end
            /\ log[i].end <= log[i].offset + log[i].size

\* C18: content_end is the first offset, stepping two bytes at a time from
\* start, at which a 00 00 or FF FF pair occurs (no aligned unit before it is
\* such a pair); separator_bytes is the maximal run of such pairs beginning
\* at content_end, and is empty when no pair is found before the image ends.
C18_ContentEndAtFirstPair ==
    [][ StringPatched =>
          LET e == Last(log')
              start == e.offset
              n == Len(e.sep_bytes)
          IN  /\ start <= e.end
              /\ (e.end - start) % 2 = 0
              /\ \A o \in start..(e.end - 1) : (o - start) % 2 = 0 => ~PairAt(data, o)
              /\ e.original_bytes = Slice(data, start, e.end)
              /\ e.sep_bytes = Slice(data, e.end, e.end + n)
              /\ n % 2 = 0
              /\ \A k \in 0..((n \div 2) - 1) : PairAt(data, e.end + 2 * k)
              /\ ~PairAt(data, e.end + n)
              /\ n = 0 => e.end + 2 > Len(data) ]_vars

\* C18 witness: the content 'A' at offset 0 followed by 00 00 gave
\* content_end 2 and the separator 00 00.
C18_Witness ==
    /\ script = "code_bin_trad_no_extend"
    /\ Len(log) >= 1
    /\ log[1].offset = 0
    /\ log[1].original_bytes = << 65, 0 >>
    /\ log[1].end = 2
    /\ log[1].sep_bytes = << 0, 0 >>

----------------------------------------------------------------------------
(* Properties of the text codec *)

\* Every unit of t is a character of its own (no surrogate half)
Representable(t) == \A i \in DOMAIN t : ~IsHighSurrogate(t[i]) /\ ~IsLowSurrogate(t[i])

\* C14: for every text made only of representable 2-byte units,
\* decode(encode(text)) == text, and encode yields exactly 2 bytes per unit
\* with no separator appended.
C14_CodecRoundTrip ==
    (pc = "decoded" /\ Representable(input_text)) =>
        /\ output[1] = input_text
        /\ Len(data) = 2 * Len(input_text)
        /\ \A i \in DOMAIN input_text :
             data[2 * i - 1] + 256 * data[2 * i] = input_text[i]

\* C14 witness: the three-unit text 'A', euro sign, NUL was encoded to six
\* bytes and decoded again.
C14_Witness ==
    /\ pc = "decoded"
    /\ input_text = << 65, 8364, 0 >>
    /\ data = << 65, 0, 172, 32, 0, 0 >>
    /\ output = << input_text >>

----------------------------------------------------------------------------
(* Properties of the RTZ containers *)

\* C15 as stated: for every byte array x, compress(x) starts with the 4-byte
\* little-endian length of x followed by the compressed stream, and
\* decompress(compress(x)) has the length of x.
C15_ContainerRoundTripSize ==
    (script \in ContainerScripts /\ pc \notin {"run", "compressed"}) =>
        /\ Slice(output[1], 0, 4) = LE32(Len(data))
        /\ Slice(output[1], 4, Len(output[1])) = gzip_compress(data)
        /\ decompressed # << >>
        /\ Len(decompressed[1]) = Len(data)

\* The scripts that write a container after injecting text
ContainerInjectors == {"precision_rtz_injector", "zero_text_injector"}

\* C30 as stated: every container written by a container injector carries a
\* 4-byte little-endian size prefix equal to the length of the data
\* compressed into it, also when the injected text changed that length.
C30_WrittenPrefixIsDataLength ==
    (script \in ContainerInjectors /\ output # << >>) =>
        /\ Slice(output[1], 4, Len(output[1])) = gzip_compress(data)
        /\ U32LE(Slice(output[1], 0, 4)) = Len(data)

----------------------------------------------------------------------------
(* Properties of the exheader patchers *)

\* The header was patched and written for a non-negative size_delta
PatchedForGrowth == pc = "done" /\ script \in HeaderScripts /\ size_patched >= size_padded

HeaderPatched == pc = "done" /\ script \in HeaderScripts

\* base_data_size + size_delta of the finished run
RawNewDataSize == DATA_SIZE + BSS_SIZE + (size_patched - size_padded)

\* C11: the data-size field written is base_data_size + size_delta rounded up
\* to the next multiple of 0x1000 (never below it, less than 0x1000 above
\* it), and the page-count field written times 0x1000 is that data size.
C11_DataSizeRoundedUpAndPages ==
    HeaderPatched =>
        LET data_size == U32LE(Slice(output[1], 12, 16))
            pages == U32LE(Slice(output[1], 52, 56))
        IN  /\ data_size % PAGE_SIZE = 0
            /\ data_size >= RawNewDataSize
            /\ data_size - RawNewDataSize < PAGE_SIZE
            /\ pages * PAGE_SIZE = data_size

\* C11 witness: a run whose base_data_size + size_delta is already a multiple
\* of 0x1000 and is written unchanged as the data size.
C11_Witness ==
    /\ HeaderPatched
    /\ size_patched - size_padded = AligningDelta
    /\ U32LE(Slice(output[1], 12, 16)) = RawNewDataSize
    /\ U32LE(Slice(output[1], 52, 56)) = RawNewDataSize \div PAGE_SIZE

\* The header offsets of the code-size, data-size and page-count fields
SizeFieldOffsets == (0..3) \cup (12..15) \cup (52..55)
\* The header offsets of the read-only-size field at 0x08
RoSizeOffsets == 8..11

\* C16 as stated: for an input header of at least 0x38 bytes the patched
\* header has the input's length and differs from it only in the code-size,
\* data-size and page-count fields.
C16_OnlySizeFieldsChange ==
    (HeaderPatched /\ Len(ex_file[1]) >= EXHEADER_MIN) =>
        /\ Len(output[1]) = Len(ex_file[1])
        /\ \A o \in 0..(Len(ex_file[1]) - 1) :
             o \notin SizeFieldOffsets => output[1][o + 1] = ex_file[1][o + 1]

\* C16 amended: for an input header of at least 0x38 bytes the patched header
\* has the input's length and differs from it only in the code-size,
\* data-size and page-count fields and in the four bytes at 0x08..0x0C (the
\* read-only size), which are set to zero.
C16_OnlySizeAndRoFieldsChange ==
    (HeaderPatched /\ Len(ex_file[1]) >= EXHEADER_MIN) =>
        /\ Len(output[1]) = Len(ex_file[1])
        /\ \A o \in RoSizeOffsets : output[1][o + 1] = 0
        /\ \A o \in 0..(Len(ex_file[1]) - 1) :
             o \notin (SizeFieldOffsets \cup RoSizeOffsets)
                 => output[1][o + 1] = ex_file[1][o + 1]

\* C16 witness: a header longer than 0x38 bytes was patched, its page-count
\* field changed and the byte after that field kept its value.
C16_Witness ==
    /\ HeaderPatched
    /\ Len(ex_file[1]) > EXHEADER_MIN
    /\ Slice(output[1], 52, 56) # Slice(ex_file[1], 52, 56)
    /\ output[1][EXHEADER_MIN + 1] = ex_file[1][EXHEADER_MIN + 1]

\* C26: the code size the header patch declares is never smaller than the
\* length of the patched image it was run on, and less than a page above it:
\* len(patched image) <= code_size < len(patched image) + 0x1000.
C26_CodeSizeCoversPatchedImage ==
    HeaderPatched =>
        LET code_size == U32LE(Slice(output[1], 0, 4))
        IN  /\ size_patched <= code_size
            /\ code_size < size_patched + PAGE_SIZE

\* C26 witness: headers were patched for an image one byte past a page
\* boundary, whose code size is almost a page above the image length.
C26_Witness ==
    /\ HeaderPatched
    /\ size_patched = PAGE_SIZE + 1
    /\ U32LE(Slice(output[1], 0, 4)) = 2 * PAGE_SIZE

\* C24 as stated: when an input file is missing or the header is shorter
\* than 0x38 bytes, every header patcher reports failure and writes no
\* patched header.
C24_FailingPatchWritesNothing ==
    (/\ script \in HeaderScripts
     /\ pc # "run"
     /\ \/ size_padded = -1
        \/ size_patched = -1
        \/ ex_file = << >>
        \/ Len(ex_file[1]) < EXHEADER_MIN)
        => /\ pc \in {"failed", "crashed"}
           /\ output = << >>

----------------------------------------------------------------------------
(* Properties of the pointer table and the extractor *)

\* The unique target addresses of the records that lie in the region
InRangeTargets == {records[i].val : i \in 1..Len(records)}
                    \cap {v \in region.start..(region.end - 1) : TRUE}

\* The table rows that open a new target (the first row of each target)
FirstRows(t) == SelectSeq([n \in 1..Len(t) |-> [row |-> t[n], n |-> n]],
                          LAMBDA x : x.n = 1 \/ t[x.n - 1].cible # x.row.cible)

\* The string extents [start, end) (virtual addresses) the finished script derived
Extents ==
    IF script = "IDA_export_pointers"
    THEN LET f == FirstRows(output[1])
         IN  [k \in 1..Len(f) |-> [start |-> f[k].row.cible,
                                   end |-> f[k].row.cible + f[k].row.taille]]
    ELSE [k \in 1..Len(output[1]) |-> [start |-> BASE_ADDR + output[1][k].start,
                                       end |-> BASE_ADDR + output[1][k].end]]

\* Non-empty ranges in ascending order, each ending where the next begins
Contiguous(E) ==
    /\ \A k \in 1..Len(E) : E[k].start < E[k].end
    /\ \A k \in 1..(Len(E) - 1) : E[k].end = E[k + 1].start

TableDone == pc = "done" /\ script \in TableScripts

\* C5 as stated: for N >= 1 unique in-range targets the extents are exactly N
\* ranges, contiguous, non-overlapping, ascending, with union
\* [region_start, region_end).
C5_ExtentsPartitionRegion ==
    (TableDone /\ InRangeTargets # {}) =>
        /\ Len(Extents) = Cardinality(InRangeTargets)
        /\ Contiguous(Extents)
        /\ Extents[1].start = region.start
        /\ Last(Extents).end = region.end

\* C5 amended: the extents are contiguous, non-overlapping, non-empty and
\* ascending, each starts at an in-range target, and their union is
\* [first extent's target, region_end); the export derives exactly N of them
\* (the first at the smallest target), the extractor at most N (one per target
\* that passes its validity filter).
C5_ExtentsPartitionFromFirstTarget ==
    TableDone =>
        /\ Contiguous(Extents)
        /\ \A k \in 1..Len(Extents) : Extents[k].start \in InRangeTargets
        /\ Extents # << >> => Last(Extents).end = region.end
        /\ Len(Extents) <= Cardinality(InRangeTargets)
        /\ script = "IDA_export_pointers" =>
             /\ Len(Extents) = Cardinality(InRangeTargets)
             /\ \A k \in 1..Len(Extents) : \A t \in InRangeTargets :
                  ~(Extents[k].start < t /\ t < Extents[k].end)

\* C5 witness: the extractor derived two extents from two valid targets, the
\* first of them above the region start.
C5_Witness ==
    /\ TableDone
    /\ script = "extract_from_pointer"
    /\ Cardinality(InRangeTargets) = 2
    /\ Len(Extents) = 2
    /\ Extents[1].start > region.start
    /\ Extents[1].end = Extents[2].start

\* The extents the running script derives from the pointer records rows
ExtentsFrom(rows) ==
    IF script = "IDA_export_pointers"
    THEN LET f == FirstRows(Table(rows, region.start, region.end))
         IN  [k \in 1..Len(f) |-> [start |-> f[k].row.cible,
                                   end |-> f[k].row.cible + f[k].row.taille]]
    ELSE LET res == ExtractResults(data, rows, region.start, region.end)
         IN  [k \in 1..Len(res) |-> [start |-> BASE_ADDR + res[k].start,
                                     end |-> BASE_ADDR + res[k].end]]

\* E with its k-th extent (k >= 2) joined to the one before it
MergeAt(E, k) ==
    [n \in 1..(Len(E) - 1) |->
       IF n < k - 1 THEN E[n]
       ELSE IF n = k - 1 THEN [start |-> E[k - 1].start, end |-> E[k].end]
       ELSE E[n + 1]]

\* C23: when the target t_j of an extent other than the first is missing from
\* the pointer table, the run still completes and derives the same extents
\* except that the predecessor's extent becomes [t_(j-1), t_(j+1)), the union
\* of the two original extents.
C23_MissingTargetMergesExtents ==
    TableDone =>
        /\ Extents = ExtentsFrom(records)
        /\ \A k \in 2..Len(Extents) :
             ExtentsFrom(SelectSeq(records, LAMBDA r : r.val # Extents[k].start))
                 = MergeAt(Extents, k)

\* C23 witness: the export derived three extents, so that dropping the middle
\* target leaves a first extent to grow and a last extent to stay as it was.
C23_Witness ==
    /\ TableDone
    /\ script = "IDA_export_pointers"
    /\ Len(Extents) = 3
    /\ MergeAt(Extents, 2) =
         << [start |-> Extents[1].start, end |-> Extents[3].start], Extents[3] >>

\* The pointer locations of the records with target t, in input order
InputLocations(t) ==
    LET grp == SelectSeq(records, LAMBDA r : r.val = t)
    IN  [i \in 1..Len(grp) |-> grp[i].ea]

\* How often x occurs in the sequence q
Occurrences(q, x) == Cardinality({i \in DOMAIN q : q[i] = x})

\* The groups load_and_group_pointers builds from the records of the run
Groups == load_and_group_pointers(records, region.start, region.end)

ExtractorDone == pc = "done" /\ script = "extract_from_pointer"

\* C25 as stated: grouping by target keeps each group's pointer locations in
\* the order in which they appear in the input, and records whose target is
\* outside [region_start, region_end) appear in no group.
C25_GroupsKeepInputOrder ==
    ExtractorDone =>
        /\ {Groups[k].val : k \in DOMAIN Groups} = InRangeTargets
        /\ \A k \in DOMAIN Groups : Groups[k].offs = InputLocations(Groups[k].val)

\* C25 amended: each group holds exactly the pointer locations of the input
\* records with its target, in ascending order of location (the input order
\* only when the input lists them ascending); the groups are those of the
\* in-range targets, and every extracted row carries its target's group.
C25_GroupsSortedByLocation ==
    ExtractorDone =>
        /\ {Groups[k].val : k \in DOMAIN Groups} = InRangeTargets
        /\ \A k \in DOMAIN Groups :
             LET offs == Groups[k].offs
                 given == InputLocations(Groups[k].val)
             IN  /\ \A i, j \in DOMAIN offs : i < j => offs[i] <= offs[j]
                 /\ Len(offs) = Len(given)
                 /\ \A i \in DOMAIN given :
                      Occurrences(offs, given[i]) = Occurrences(given, given[i])
        /\ \A n \in DOMAIN output[1] : \E k \in DOMAIN Groups :
             /\ Groups[k].val = output[1][n].pointer_value
             /\ Groups[k].offs = output[1][n].pointer_offsets

\* C25 witness: two records of one target came with the higher location
\* first, next to a record whose target is out of range, and the extracted
\* row lists the lower location first.
C25_Witness ==
    /\ ExtractorDone
    /\ Len(records) = 3
    /\ records[1].val = records[2].val
    /\ records[1].ea > records[2].ea
    /\ records[3].val \notin InRangeTargets
    /\ Len(output[1]) = 1
    /\ output[1][1].pointer_offsets = << records[2].ea, records[1].ea >>

\* The separator bytes the extractor stripped from the extent of its n-th row
StrippedSeparator(n) ==
    strip_trailing_separators(Slice(data, output[1][n].start, output[1][n].end)).sep

\* C28: the separator column round-trips: parse_separators applied to the
\* extractor's hex rendering of a separator byte string s (the empty one is
\* written '(aucun)') returns s.
C28_SeparatorColumnRoundTrip ==
    ExtractorDone =>
        \A n \in DOMAIN output[1] :
            parse_separators(output[1][n].separators) = StrippedSeparator(n)

\* C28 witness: one extracted row carries the separator FF FF and another
\* extracted row carries none.
C28_Witness ==
    /\ ExtractorDone
    /\ \E n \in DOMAIN output[1] :
         /\ StrippedSeparator(n) = << 255, 255 >>
         /\ output[1][n].separators = << <<"F", "F">>, <<"F", "F">> >>
    /\ \E n \in DOMAIN output[1] :
         /\ StrippedSeparator(n) = << >>
         /\ output[1][n].separators = << Aucun >>

\* The text the extractor decoded for its n-th row, before escaping
ExtractedText(n) ==
    RStripNul(decode_utf16le(
        strip_trailing_separators(Slice(data, output[1][n].start, output[1][n].end)).chunk))

\* C29 as stated: for every extracted text t, replacing the escape character
\* back to a newline in escape_newlines(t) returns t, so an unmodified row
\* re-encodes to the original string bytes.
C29_NewlineEscapeRoundTrip ==
    ExtractorDone =>
        \A n \in DOMAIN output[1] :
            /\ UnescapeNewlines(output[1][n].extract) = ExtractedText(n)
            /\ EncodeUtf16le(UnescapeNewlines(output[1][n].extract))
                 = strip_trailing_separators(
                       Slice(data, output[1][n].start, output[1][n].end)).chunk

====
